---------------------------- MODULE Spec2Model ----------------------------
(***************************************************************************)
(* A model of scalegen.py: the pattern helpers get_start_pitches and       *)
(* close_pattern, the Note and Generator classes, and the three generator  *)
(* functions, as state machines over the same variables.                   *)
(*                                                                         *)
(* Three specifications:                                                   *)
(*   SpecPure  one call of a pattern helper on inputs drawn from bounded   *)
(*             sets;                                                       *)
(*   SpecGen   one run of a generator function, one step per statement of  *)
(*             its loop;                                                   *)
(*   SpecApi   a sequence of Generator.add_note calls with arbitrary       *)
(*             track ids.                                                  *)
(*                                                                         *)
(* Beats are the integer-valued floats the generators produce (pos starts  *)
(* at 0.0 and is advanced by note_length = 1.0), modelled as integers.     *)
(* Absolute times (beat * 60 / bpm) are modelled as exact fractions        *)
(* [num, den]; bpm is positive, as a tempo is. A Python exception is the   *)
(* value Raise(name); a generator run that raises stops at pc = "raised".  *)
(***************************************************************************)
EXTENDS Integers, Sequences, FiniteSets

VARIABLES
    pc,             \* position of the running call
    gen,            \* the function being run
    pattern,        \* argument: the interval pattern
    low,            \* argument: lowest pitch
    high,           \* argument: highest pitch
    cycle_up_down,  \* argument of get_start_pitches
    do_close_pattern, \* argument of generator_scale_with_triad_opener
    bpm,            \* Generator.bpm
    ret,            \* outcome of the call: Return(v) or Raise(e)
    local_pattern,  \* the generator's local variable `pattern`
    start_pitches,  \* the generator's local variable `start_pitches`
    sp_idx,         \* index of the outer loop in start_pitches (1-based)
    d_idx,          \* index of the inner loop in the pattern (1-based)
    pos,            \* the generator's cursor, in beats
    data_fg,        \* Generator.data_fg.notes
    data_bg,        \* Generator.data_bg.notes
    notes,          \* the Note objects constructed, in order, with their track
    calls           \* the add_note calls made, in order, with their outcome

vars == <<pc, gen, pattern, low, high, cycle_up_down, do_close_pattern, bpm,
          ret, local_pattern, start_pitches, sp_idx, d_idx, pos, data_fg,
          data_bg, notes, calls>>

-----------------------------------------------------------------------------
(* Bounds of the model *)

\* patterns of the helper calls have at most MaxLen elements
MaxLen == 3
\* pattern elements are drawn from -MaxDelta..MaxDelta
MaxDelta == 2
\* low is PitchBase or PitchBase+1; high ranges from PitchBase-1 up to
\* PitchBase+MaxSpan
PitchBase == 20
MaxSpan == 4

-----------------------------------------------------------------------------
(* Python values *)

Return(v) == [kind |-> "return", val |-> v]
Raise(e)  == [kind |-> "raise", exc |-> e]
NoRet     == [kind |-> "none"]

\* min(seq) and max(seq) of a non-empty list
min(s) == CHOOSE x \in {s[i] : i \in 1..Len(s)} :
              \A j \in 1..Len(s) : x <= s[j]
max(s) == CHOOSE x \in {s[i] : i \in 1..Len(s)} :
              \A j \in 1..Len(s) : x >= s[j]

\* list(range(a, b))
range(a, b) == [i \in 1..(IF b > a THEN b - a ELSE 0) |-> a + i - 1]

\* list(reversed(s))
reversed(s) == [i \in 1..Len(s) |-> s[Len(s) + 1 - i]]

\* s[start::-1]: Python's slice with a negative step and no stop. A negative
\* start counts from the end; a start still below 0 gives the empty list, a
\* start past the end is clamped to the last element.
slice_down(s, start) ==
    LET n   == Len(s)
        st0 == IF start < 0 THEN start + n ELSE start
        st  == IF st0 < 0 THEN -1 ELSE IF st0 >= n THEN n - 1 ELSE st0
    IN  [k \in 1..(st + 1) |-> s[st - k + 2]]

\* s[start:0:-1]: as slice_down, stopping before index 0
slice_down_excl0(s, start) ==
    LET full == slice_down(s, start)
    IN  IF Len(full) = 0 THEN full ELSE SubSeq(full, 1, Len(full) - 1)

-----------------------------------------------------------------------------
(* Pattern helpers *)

get_start_pitches_asc_short(p, lo, hi, cycle) ==
    IF p = <<>> THEN Raise("ValueError")
    ELSE LET lowest  == lo - min(p)
             highest == hi - max(p)
         IN  IF ~cycle
             THEN Return(range(lowest, highest))
             ELSE Return(range(lowest, highest + 1)
                         \o reversed(range(lowest, highest)))

get_start_pitches_top_twice(p, lo, hi, cycle) ==
    IF p = <<>> THEN Raise("ValueError")
    ELSE LET lowest  == lo - min(p)
             highest == hi - max(p)
         IN  IF ~cycle
             THEN Return(range(lowest, highest + 1))
             ELSE Return(range(lowest, highest + 1)
                         \o reversed(range(lowest, highest + 1)))

get_start_pitches_empty_ok(p, lo, hi, cycle) ==
    IF p = <<>> THEN Return(<<>>)
    ELSE LET lowest  == lo - min(p)
             highest == hi - max(p)
         IN  IF ~cycle
             THEN Return(range(lowest, highest + 1))
             ELSE Return(range(lowest, highest + 1)
                         \o reversed(range(lowest, highest)))

get_start_pitches_span_only(p, lo, hi, cycle) ==
    IF p = <<>> THEN Raise("ValueError")
    ELSE LET lowest  == lo
             highest == hi - (max(p) - min(p))
         IN  IF ~cycle
             THEN Return(range(lowest, highest + 1))
             ELSE Return(range(lowest, highest + 1)
                         \o reversed(range(lowest, highest)))

\* min() and max() raise ValueError on an empty list
get_start_pitches(p, lo, hi, cycle) ==
    IF p = <<>> THEN Raise("ValueError")
    ELSE LET min_delta == min(p)
             max_delta == max(p)
             lowest    == lo - min_delta
             highest   == hi - max_delta
         IN  IF ~cycle
             THEN Return(range(lowest, highest + 1))
             ELSE Return(range(lowest, highest + 1)
                         \o reversed(range(lowest, highest)))

close_pattern_full_mirror(p) == Return(p \o slice_down(p, -1))

close_pattern_drop_first(p) == Return(p \o slice_down_excl0(p, -2))

\* pattern + pattern[-2::-1]
close_pattern(p) == Return(p \o slice_down(p, -2))

-----------------------------------------------------------------------------
(* Inputs *)

Deltas == (0 - MaxDelta)..MaxDelta

SeqsUpTo(S, n) == UNION {[1..k -> S] : k \in 0..n}

Patterns == SeqsUpTo(Deltas, MaxLen)

Lows == {PitchBase, PitchBase + 1}

Highs == (PitchBase - 1)..(PitchBase + MaxSpan)

-----------------------------------------------------------------------------
(* Note and Generator *)

\* Note.__init__: the constructor asserts tick_upto >= tick_from
Note(tick_from, tick_upto, pitch) ==
    IF tick_upto >= tick_from
    THEN Return([tick_from |-> tick_from, tick_upto |-> tick_upto,
                 pitch |-> pitch, velocity |-> 100])
    ELSE Raise("AssertionError")

\* Generator._beat_to_abs_time: beat * 60 / bpm, as an exact fraction
\* (bpm is positive in every state of the model)
beat_to_abs_time(beat, tempo) == [num |-> beat * 60, den |-> tempo]

\* pretty_midi.Note(velocity=100, pitch=..., start=..., end=...)
pretty_note(note, tempo) ==
    [velocity |-> 100, pitch |-> note.pitch,
     start |-> beat_to_abs_time(note.tick_from, tempo),
     end   |-> beat_to_abs_time(note.tick_upto, tempo)]

add_note_append_first(fg, bg, tempo, track_id, note) ==
    LET pn == pretty_note(note, tempo)
    IN  IF track_id = "bg"
        THEN [fg |-> fg, bg |-> Append(bg, pn), exc |-> "none"]
        ELSE [fg |-> Append(fg, pn), bg |-> bg,
              exc |-> IF track_id = "fg" THEN "none" ELSE "ValueError"]

\* Generator.add_note: the tracks after the call, and the exception raised
add_note(fg, bg, tempo, track_id, note) ==
    LET pn == pretty_note(note, tempo)
    IN  IF track_id = "fg"
        THEN [fg |-> Append(fg, pn), bg |-> bg, exc |-> "none"]
        ELSE IF track_id = "bg"
        THEN [fg |-> fg, bg |-> Append(bg, pn), exc |-> "none"]
        ELSE [fg |-> fg, bg |-> bg, exc |-> "ValueError"]

\* data.add_note(track_id, Note(tick_from, tick_upto, pitch)) inside a
\* generator, on g = [fg, bg, notes, exc]; nothing runs after an exception
emit(g, tempo, track_id, tick_from, tick_upto, pitch) ==
    IF g.exc # "none" THEN g
    ELSE LET n == Note(tick_from, tick_upto, pitch)
         IN  IF n.kind = "raise" THEN [g EXCEPT !.exc = n.exc]
             ELSE LET r == add_note(g.fg, g.bg, tempo, track_id, n.val)
                  IN  [fg |-> r.fg, bg |-> r.bg,
                       notes |-> Append(g.notes,
                                   [track |-> track_id,
                                    tick_from |-> n.val.tick_from,
                                    tick_upto |-> n.val.tick_upto,
                                    pitch |-> n.val.pitch]),
                       exc |-> r.exc]

-----------------------------------------------------------------------------
(* SpecPure: one call of get_start_pitches or close_pattern *)

NoRun ==
    /\ do_close_pattern = FALSE
    /\ bpm = 120
    /\ local_pattern = <<>>
    /\ start_pitches = <<>>
    /\ sp_idx = 1
    /\ d_idx = 1
    /\ pos = 0
    /\ data_fg = <<>>
    /\ data_bg = <<>>
    /\ notes = <<>>
    /\ calls = <<>>

InitPure ==
    /\ pc = "call"
    /\ gen \in {"get_start_pitches", "close_pattern"}
    /\ pattern \in Patterns
    /\ low \in Lows
    /\ high \in Highs
    /\ cycle_up_down \in BOOLEAN
    /\ ret = NoRet
    /\ NoRun

CallGetStartPitches ==
    /\ pc = "call"
    /\ gen = "get_start_pitches"
    /\ ret' = get_start_pitches(pattern, low, high, cycle_up_down)
    /\ pc' = "returned"
    /\ UNCHANGED <<gen, pattern, low, high, cycle_up_down, do_close_pattern,
                   bpm, local_pattern, start_pitches, sp_idx, d_idx, pos,
                   data_fg, data_bg, notes, calls>>

CallClosePattern ==
    /\ pc = "call"
    /\ gen = "close_pattern"
    /\ ret' = close_pattern(pattern)
    /\ pc' = "returned"
    /\ UNCHANGED <<gen, pattern, low, high, cycle_up_down, do_close_pattern,
                   bpm, local_pattern, start_pitches, sp_idx, d_idx, pos,
                   data_fg, data_bg, notes, calls>>

NextPure == CallGetStartPitches \/ CallClosePattern

SpecPure == InitPure /\ [][NextPure]_vars

-----------------------------------------------------------------------------
(* SpecApi: a caller's sequence of Generator.add_note calls *)

\* at most MaxCalls calls of add_note are made
MaxCalls == 4

\* tempos of the generators' defaults and of main()
Bpms == {90, 120, 140, 160}

\* TrackId = Literal["fg", "bg"] is not enforced at run time
AnyTrackIds == {"fg", "bg", "xx"}

InitApi ==
    /\ pc = "api"
    /\ gen = "add_note"
    /\ pattern = <<>>
    /\ low = PitchBase
    /\ high = PitchBase
    /\ cycle_up_down = FALSE
    /\ do_close_pattern = FALSE
    /\ bpm \in Bpms
    /\ ret = NoRet
    /\ local_pattern = <<>>
    /\ start_pitches = <<>>
    /\ sp_idx = 1
    /\ d_idx = 1
    /\ pos = 0
    /\ data_fg = <<>>
    /\ data_bg = <<>>
    /\ notes = <<>>
    /\ calls = <<>>

\* data.add_note(track_id, Note(tick_from, tick_from + 1, pitch)); the caller
\* may catch the exception and go on
ApiAddNote ==
    /\ pc = "api"
    /\ Len(calls) < MaxCalls
    /\ \E track_id \in AnyTrackIds, tick_from \in 0..1 :
         LET n == Note(tick_from, tick_from + 1, PitchBase)
             r == add_note(data_fg, data_bg, bpm, track_id, n.val)
         IN  /\ data_fg' = r.fg
             /\ data_bg' = r.bg
             /\ calls' = Append(calls, [track_id |-> track_id, exc |-> r.exc])
             /\ ret' = IF r.exc = "none" THEN Return("None") ELSE Raise(r.exc)
             /\ notes' = Append(notes, [track |-> track_id,
                                        tick_from |-> n.val.tick_from,
                                        tick_upto |-> n.val.tick_upto,
                                        pitch |-> n.val.pitch])
    /\ UNCHANGED <<pc, gen, pattern, low, high, cycle_up_down,
                   do_close_pattern, bpm, local_pattern, start_pitches,
                   sp_idx, d_idx, pos>>

NextApi == ApiAddNote

SpecApi == InitApi /\ [][NextApi]_vars

-----------------------------------------------------------------------------
(* SpecGen: one run of a generator function *)

\* patterns given to generator_scale_with_triad_opener have at most GenMaxLen
\* elements, drawn from GenDeltas
GenMaxLen == 5
GenDeltas == {-1, 0, 1}
\* high ranges from low-1 up to low+GenSpan (plus the span of the fixed
\* pattern for generator_major_triad and generator_major_scale)
GenSpan == 3

GenPatterns == SeqsUpTo(GenDeltas, GenMaxLen)

note_length == 1

major_triad_pattern == <<0, 4, 7, 12, 7, 4, 0>>

major_scale_pattern == <<0, 2, 4, 5, 7, 9, 11, 12, 11, 9, 7, 5, 4, 2, 0>>

FixedGens == {"generator_major_triad", "generator_major_scale"}

Opener == "generator_scale_with_triad_opener"

\* the pattern literal of a fixed generator
fixed_pattern(g) ==
    IF g = "generator_major_triad" THEN major_triad_pattern
    ELSE major_scale_pattern

drone_factor_run_only(g) == Len(fixed_pattern(g))

\* the literal factor of the drone note's length: note_length * 8 and
\* note_length * 16
drone_factor(g) == IF g = "generator_major_triad" THEN 8 ELSE 16

\* the default of the parameter bpm
default_bpm(g) ==
    IF g = "generator_major_triad" THEN 120
    ELSE IF g = "generator_major_scale" THEN 90
    ELSE 140

\* a run with the default tempo; low, high and the opener's pattern and
\* do_close_pattern are drawn from the bounded sets
InitGen ==
    /\ pc = "start"
    /\ gen \in FixedGens \cup {Opener}
    /\ low = PitchBase
    /\ bpm = default_bpm(gen)
    /\ IF gen \in FixedGens
       THEN /\ pattern = <<>>
            /\ do_close_pattern = FALSE
            /\ \E d \in (0 - 1)..GenSpan :
                   high = low + max(fixed_pattern(gen)) + d
       ELSE /\ pattern \in GenPatterns
            /\ do_close_pattern \in BOOLEAN
            /\ high \in (low - 1)..(low + GenSpan)
    /\ cycle_up_down = TRUE
    /\ ret = NoRet
    /\ local_pattern = <<>>
    /\ start_pitches = <<>>
    /\ sp_idx = 1
    /\ d_idx = 1
    /\ pos = 0
    /\ data_fg = <<>>
    /\ data_bg = <<>>
    /\ notes = <<>>
    /\ calls = <<>>

G0 == [fg |-> data_fg, bg |-> data_bg, notes |-> notes, exc |-> "none"]

\* the statements before the loop: the pattern (closed if asked), the start
\* pitches, Generator(bpm), pos = 0.0
GenSetup ==
    /\ pc = "start"
    /\ LET lp == IF gen \in FixedGens THEN fixed_pattern(gen)
                 ELSE IF do_close_pattern THEN close_pattern(pattern).val
                 ELSE pattern
           sp == get_start_pitches(lp, low, high, TRUE)
       IN  /\ local_pattern' = lp
           /\ IF sp.kind = "raise"
              THEN /\ pc' = "raised"
                   /\ ret' = sp
                   /\ UNCHANGED start_pitches
              ELSE /\ pc' = "loop"
                   /\ start_pitches' = sp.val
                   /\ UNCHANGED ret
    /\ sp_idx' = 1
    /\ pos' = 0
    /\ data_fg' = <<>>
    /\ data_bg' = <<>>
    /\ UNCHANGED <<gen, pattern, low, high, cycle_up_down, do_close_pattern,
                   bpm, d_idx, notes, calls>>

\* what a step of the loop body leaves behind: the tracks, and the exception
\* if one was raised
After(g, next_pc) ==
    /\ data_fg' = g.fg
    /\ data_bg' = g.bg
    /\ notes' = g.notes
    /\ IF g.exc = "none"
       THEN pc' = next_pc /\ UNCHANGED ret
       ELSE pc' = "raised" /\ ret' = Raise(g.exc)

\* generator_major_triad, generator_major_scale: the drone note of an
\* iteration
GenDrone ==
    /\ pc = "loop"
    /\ gen \in FixedGens
    /\ sp_idx <= Len(start_pitches)
    /\ LET start_pitch == start_pitches[sp_idx]
           g == emit(G0, bpm, "bg", pos,
                     pos + note_length * drone_factor(gen), start_pitch - 12)
       IN  After(g, "inner")
    /\ d_idx' = 1
    /\ UNCHANGED <<gen, pattern, low, high, cycle_up_down, do_close_pattern,
                   bpm, local_pattern, start_pitches, sp_idx, pos, calls>>

\* generator_scale_with_triad_opener: "1. start pitch"
GenOpenerRoot ==
    /\ pc = "loop"
    /\ gen = Opener
    /\ sp_idx <= Len(start_pitches)
    /\ LET start_pitch == start_pitches[sp_idx]
           g == emit(G0, bpm, "fg", pos, pos + note_length, start_pitch)
       IN  After(g, "triad")
    /\ pos' = pos + note_length
    /\ UNCHANGED <<gen, pattern, low, high, cycle_up_down, do_close_pattern,
                   bpm, local_pattern, start_pitches, sp_idx, d_idx, calls>>

\* generator_scale_with_triad_opener: "2. the triad"; pattern[2] and
\* pattern[4] raise IndexError on a pattern that is too short
GenOpenerTriad ==
    /\ pc = "triad"
    /\ LET start_pitch == start_pitches[sp_idx]
           lp == local_pattern
           g1 == emit(G0, bpm, "fg", pos, pos + note_length, start_pitch)
           g2 == IF Len(lp) < 3 THEN [g1 EXCEPT !.exc = "IndexError"]
                 ELSE emit(g1, bpm, "fg", pos, pos + note_length,
                           start_pitch + lp[3])
           g3 == IF g2.exc # "none" THEN g2
                 ELSE IF Len(lp) < 5 THEN [g2 EXCEPT !.exc = "IndexError"]
                 ELSE emit(g2, bpm, "fg", pos, pos + note_length,
                           start_pitch + lp[5])
       IN  After(g3, "inner")
    /\ pos' = pos + note_length
    /\ d_idx' = 1
    /\ UNCHANGED <<gen, pattern, low, high, cycle_up_down, do_close_pattern,
                   bpm, local_pattern, start_pitches, sp_idx, calls>>

\* all generators: one melody note of the pattern walk
GenMelody ==
    /\ pc = "inner"
    /\ d_idx <= Len(local_pattern)
    /\ LET start_pitch == start_pitches[sp_idx]
           delta == local_pattern[d_idx]
           g == emit(G0, bpm, "fg", pos, pos + note_length,
                     start_pitch + delta)
       IN  After(g, "inner")
    /\ pos' = pos + note_length
    /\ d_idx' = d_idx + 1
    /\ UNCHANGED <<gen, pattern, low, high, cycle_up_down, do_close_pattern,
                   bpm, local_pattern, start_pitches, sp_idx, calls>>

GenRest_cursor_reset ==
    /\ pc = "inner"
    /\ d_idx > Len(local_pattern)
    /\ pos' = 0
    /\ sp_idx' = sp_idx + 1
    /\ pc' = "loop"
    /\ UNCHANGED <<gen, pattern, low, high, cycle_up_down, do_close_pattern,
                   bpm, ret, local_pattern, start_pitches, d_idx, data_fg,
                   data_bg, notes, calls>>

\* all generators: the break after the pattern walk
GenRest ==
    /\ pc = "inner"
    /\ d_idx > Len(local_pattern)
    /\ pos' = pos + note_length
    /\ sp_idx' = sp_idx + 1
    /\ pc' = "loop"
    /\ UNCHANGED <<gen, pattern, low, high, cycle_up_down, do_close_pattern,
                   bpm, ret, local_pattern, start_pitches, d_idx, data_fg,
                   data_bg, notes, calls>>

\* return data
GenReturn ==
    /\ pc = "loop"
    /\ sp_idx > Len(start_pitches)
    /\ pc' = "done"
    /\ ret' = Return("data")
    /\ UNCHANGED <<gen, pattern, low, high, cycle_up_down, do_close_pattern,
                   bpm, local_pattern, start_pitches, sp_idx, d_idx, pos,
                   data_fg, data_bg, notes, calls>>

NextGen ==
    \/ GenSetup
    \/ GenDrone
    \/ GenOpenerRoot
    \/ GenOpenerTriad
    \/ GenMelody
    \/ GenRest
    \/ GenReturn

SpecGen == InitGen /\ [][NextGen]_vars

-----------------------------------------------------------------------------
(* Claims about the pattern helpers, checked under SpecPure *)

ReturnedFrom(f) == pc = "returned" /\ gen = f

\* the bounds of the start pitches, as the claims state them
Lowest == low - min(pattern)

Highest == high - max(pattern)

\* the number of integers from Lowest to Highest inclusive
BaseLen == IF Highest >= Lowest THEN Highest - Lowest + 1 ELSE 0

\* C1: for a non-empty pattern, get_start_pitches with cycle_up_down=False
\* returns exactly the consecutive integers from low - min(pattern) to
\* high - max(pattern), ascending, and returns the empty list without failing
\* when low - min(pattern) > high - max(pattern).
C1_AscendingRange ==
    (ReturnedFrom("get_start_pitches") /\ pattern # <<>> /\ ~cycle_up_down)
    => /\ ret.kind = "return"
       /\ Len(ret.val) = BaseLen
       /\ \A i \in 1..BaseLen : ret.val[i] = Lowest + i - 1
       /\ (Lowest > Highest => ret.val = <<>>)

C1_Witness ==
    /\ ReturnedFrom("get_start_pitches")
    /\ ~cycle_up_down
    /\ pattern = <<0, 1, 2>>
    /\ low = 20
    /\ high = 23
    /\ ret = Return(<<20, 21>>)

\* C2: for a non-empty pattern, get_start_pitches with cycle_up_down=True
\* returns the ascending base sequence lowest..highest followed by the
\* descending sequence highest-1 down to lowest, so the top pitch appears
\* exactly once; with fewer than 2 base elements the descending part is empty
\* and the result is the base sequence.
C2_UpThenDown ==
    (ReturnedFrom("get_start_pitches") /\ pattern # <<>> /\ cycle_up_down)
    => /\ ret.kind = "return"
       /\ Len(ret.val) = BaseLen + (IF BaseLen >= 2 THEN BaseLen - 1 ELSE 0)
       /\ \A i \in 1..BaseLen : ret.val[i] = Lowest + i - 1
       /\ \A k \in 1..(BaseLen - 1) : ret.val[BaseLen + k] = Highest - k
       /\ (BaseLen >= 1 =>
             Cardinality({i \in 1..Len(ret.val) : ret.val[i] = Highest}) = 1)
       /\ (BaseLen < 2 => Len(ret.val) = BaseLen)

C2_Witness ==
    /\ ReturnedFrom("get_start_pitches")
    /\ cycle_up_down
    /\ pattern = <<0, 1, 2>>
    /\ low = 20
    /\ high = 24
    /\ ret = Return(<<20, 21, 22, 21, 20>>)

\* C3: for a pattern [p0, ..., pn] of at least 2 elements, close_pattern
\* returns [p0, ..., pn, p(n-1), ..., p0]: the pattern followed by its
\* elements from the second-to-last down to the first; the result has
\* 2*len(pattern) - 1 elements and pn stands once, at the middle index.
C3_Mirror ==
    (ReturnedFrom("close_pattern") /\ Len(pattern) >= 2)
    => LET n == Len(pattern)
       IN  /\ ret.kind = "return"
           /\ Len(ret.val) = 2 * n - 1
           /\ \A k \in 1..n : ret.val[k] = pattern[k]
           /\ \A k \in 1..(n - 1) : ret.val[n + k] = pattern[n - k]

C3_Witness ==
    /\ ReturnedFrom("close_pattern")
    /\ pattern = <<0, 1, 2>>
    /\ ret = Return(<<0, 1, 2, 1, 0>>)

\* C4 as stated: close_pattern fails (InvalidPatternError) on a pattern of
\* fewer than 2 elements and returns no pattern for it.
C4_FailsOnShortPattern ==
    (ReturnedFrom("close_pattern") /\ Len(pattern) < 2)
    => ret.kind = "raise"

\* C4 as the code has it: close_pattern does not fail on a pattern of fewer
\* than 2 elements; it returns the pattern unchanged.
C4_ShortPatternUnchanged ==
    (ReturnedFrom("close_pattern") /\ Len(pattern) < 2)
    => ret = Return(pattern)

C4_Witness ==
    /\ ReturnedFrom("close_pattern")
    /\ Len(pattern) = 1
    /\ ret.kind = "return"

\* C5: get_start_pitches fails on the empty pattern, for every low, high and
\* either value of cycle_up_down, and returns no pitch sequence for it. (The
\* failure is the ValueError of min() on an empty list.)
C5_EmptyPatternFails ==
    (ReturnedFrom("get_start_pitches") /\ pattern = <<>>)
    => ret = Raise("ValueError")

C5_Witness ==
    /\ ReturnedFrom("get_start_pitches")
    /\ pattern = <<>>
    /\ cycle_up_down
    /\ low > high
    /\ ret.kind = "raise"

\* C8: for a pattern of any length, close_pattern(p) is a palindrome: it
\* equals itself reversed.
C8_Palindrome ==
    ReturnedFrom("close_pattern")
    => /\ ret.kind = "return"
       /\ \A i \in 1..Len(ret.val) : ret.val[i] = ret.val[Len(ret.val) + 1 - i]

C8_Witness ==
    /\ ReturnedFrom("close_pattern")
    /\ Len(pattern) = 3
    /\ pattern[1] # pattern[2]
    /\ pattern[2] # pattern[3]
    /\ pattern[1] # pattern[3]
    /\ Len(ret.val) = 5

-----------------------------------------------------------------------------
(* Claim about Generator.add_note, checked under SpecApi *)

KnownTrack(t) == t \in {"fg", "bg"}

\* the number of calls so far that named track t and raised nothing
Inserted(t) ==
    Cardinality({i \in 1..Len(calls) :
                    calls[i].track_id = t /\ calls[i].exc = "none"})

\* what the call just made (the last of calls') did to the tracks
AddNoteEffect ==
    LET c == calls'[Len(calls')]
    IN  IF ~KnownTrack(c.track_id)
        THEN /\ c.exc = "ValueError"
             /\ data_fg' = data_fg
             /\ data_bg' = data_bg
        ELSE /\ c.exc = "none"
             /\ IF c.track_id = "fg"
                THEN /\ Len(data_fg') = Len(data_fg) + 1
                     /\ SubSeq(data_fg', 1, Len(data_fg)) = data_fg
                     /\ data_bg' = data_bg
                ELSE /\ Len(data_bg') = Len(data_bg) + 1
                     /\ SubSeq(data_bg', 1, Len(data_bg)) = data_bg
                     /\ data_fg' = data_fg

TrackCounts ==
    /\ Len(data_fg) = Inserted("fg")
    /\ Len(data_bg) = Inserted("bg")

\* C7: add_note with a track id other than "fg" or "bg" raises the
\* unknown-track error and leaves both tracks' note lists unchanged; with a
\* valid id it appends exactly one note to that track and leaves the other
\* unchanged; so after any sequence of calls each track's note count equals
\* the number of successful insertions for its role.
C7_AddNote ==
    /\ [][calls' # calls => AddNoteEffect]_vars
    /\ []TrackCounts

C7_Witness ==
    /\ pc = "api"
    /\ Len(calls) = 3
    /\ calls[1].track_id = "fg"
    /\ calls[2].track_id = "xx"
    /\ calls[2].exc = "ValueError"
    /\ calls[3].track_id = "bg"
    /\ Len(data_fg) = 1
    /\ Len(data_bg) = 1

-----------------------------------------------------------------------------
(* Claims about the generators, checked under SpecGen *)

IsFg(n) == n.track = "fg"

IsBg(n) == n.track = "bg"

\* the Note objects of each track, in emission order
FgNotes == SelectSeq(notes, IsFg)

BgNotes == SelectSeq(notes, IsBg)

\* C6: in every generator, for all start pitches and patterns, the notes
\* added to the melody ("fg") track have non-decreasing start_beat in emission
\* order, every emitted note (melody and drone) has end_beat >= start_beat,
\* and the assertion of Note's constructor never fails.
C6_MelodyOrdered ==
    /\ LET fg == FgNotes
       IN  \A i \in 1..(Len(fg) - 1) : fg[i].tick_from <= fg[i + 1].tick_from
    /\ \A i \in 1..Len(notes) : notes[i].tick_upto >= notes[i].tick_from
    /\ \A i \in 1..Len(data_fg) :
           data_fg[i].end.num >= data_fg[i].start.num
    /\ \A i \in 1..Len(data_bg) :
           data_bg[i].end.num >= data_bg[i].start.num
    /\ Len(data_fg) + Len(data_bg) = Len(notes)
    /\ ret # Raise("AssertionError")

C6_Witness ==
    /\ pc = "done"
    /\ gen = Opener
    /\ Len(start_pitches) >= 3
    /\ Len(FgNotes) >= 3 * (Len(local_pattern) + 4)

\* the pattern's length, and the beats from one iteration to the next
L == Len(local_pattern)

Period == (L + 1) * note_length

\* the part of C9 that does not depend on the drone's length: for the i-th
\* start pitch (0-based) one drone note with pitch start_pitch - 12 starts at
\* i*(L+1)*note_length, where the iteration's first melody note starts; melody
\* note j has pitch start_pitch + pattern[j], starts at
\* (i*(L+1)+j)*note_length and ends one note_length later; the cursor advances
\* by (L+1)*note_length per iteration.
C9_Layout ==
    (gen \in FixedGens /\ pc # "start")
    => /\ LET bg == BgNotes
          IN  \A m \in 1..Len(bg) :
                  /\ bg[m].pitch = start_pitches[m] - 12
                  /\ bg[m].tick_from = (m - 1) * Period
       /\ LET fg == FgNotes
          IN  \A m \in 1..Len(fg) :
                  LET i == (m - 1) \div L
                      j == (m - 1) % L
                  IN  /\ fg[m].pitch = start_pitches[i + 1]
                                         + local_pattern[j + 1]
                      /\ fg[m].tick_from = (i * (L + 1) + j) * note_length
                      /\ fg[m].tick_upto = fg[m].tick_from + note_length
       /\ (pc = "loop" =>
              /\ pos = (sp_idx - 1) * Period
              /\ Len(BgNotes) = sp_idx - 1
              /\ Len(FgNotes) = (sp_idx - 1) * L)
       /\ (pc = "inner" =>
              /\ pos = (sp_idx - 1) * Period + (d_idx - 1) * note_length
              /\ Len(BgNotes) = sp_idx
              /\ Len(FgNotes) = (sp_idx - 1) * L + d_idx - 1)
       /\ (pc = "done" => Len(BgNotes) = Len(start_pitches))

\* C9 as stated: the layout above, and the drone note spans exactly its own
\* melodic run: its length is note_length * len(pattern).
C9_DroneSpansRun ==
    /\ C9_Layout
    /\ (gen \in FixedGens /\ pc # "start")
       => LET bg == BgNotes
          IN  \A m \in 1..Len(bg) :
                  bg[m].tick_upto - bg[m].tick_from = note_length * L

\* C9 as the code has it: the layout above, and the drone note's length is
\* note_length * (len(pattern) + 1): it spans its melodic run and the rest
\* after it, ending where the next iteration starts.
C9_DroneSpansRunAndRest ==
    /\ C9_Layout
    /\ (gen \in FixedGens /\ pc # "start")
       => LET bg == BgNotes
          IN  \A m \in 1..Len(bg) :
                  /\ bg[m].tick_upto - bg[m].tick_from = note_length * (L + 1)
                  /\ bg[m].tick_upto = m * Period

C9_Witness ==
    /\ pc = "done"
    /\ gen = "generator_major_triad"
    /\ Len(start_pitches) >= 3
    /\ Len(BgNotes) = Len(start_pitches)
    /\ Len(FgNotes) = 7 * Len(start_pitches)

InRange(p) == low <= p /\ p <= high

\* the case of C10: generator_scale_with_triad_opener on a pattern of at least
\* 5 elements, past its setup
OpenerRuns == gen = Opener /\ Len(pattern) >= 5 /\ pc # "start"

\* C10 as stated: for every pattern of at least 5 elements and every low and
\* high, every melody note of generator_scale_with_triad_opener (the opening
\* root note, the three triad notes, the pattern walk) has a pitch within
\* [low, high].
C10_AllMelodyInRange ==
    OpenerRuns
    => LET fg == FgNotes
       IN  \A m \in 1..Len(fg) : InRange(fg[m].pitch)

\* C10 as the code has it: the notes at a pattern offset (the two upper triad
\* notes and the pattern walk) have a pitch within [low, high]; the opening
\* root note and the triad's root have the pitch start_pitch, within
\* [low - min(pattern), high - max(pattern)], hence all melody notes are
\* within [low, high] when min(pattern) <= 0 <= max(pattern).
C10_OffsetsInRange ==
    OpenerRuns
    => LET fg == FgNotes
           min_delta == min(local_pattern)
           max_delta == max(local_pattern)
       IN  /\ \A m \in 1..Len(fg) :
                  IF (m - 1) % (L + 4) \in {0, 1}
                  THEN /\ low - min_delta <= fg[m].pitch
                       /\ fg[m].pitch <= high - max_delta
                  ELSE InRange(fg[m].pitch)
           /\ (min_delta <= 0 /\ 0 <= max_delta)
              => \A m \in 1..Len(fg) : InRange(fg[m].pitch)

C10_Witness ==
    /\ pc = "done"
    /\ gen = Opener
    /\ Len(pattern) >= 5
    /\ do_close_pattern
    /\ min(pattern) < 0
    /\ max(pattern) > 0
    /\ Len(start_pitches) >= 3
    /\ Len(FgNotes) = Len(start_pitches) * (L + 4)

=============================================================================
